---- MODULE Spec2Model ----
(***************************************************************************)
(* A model of hamidlotfi92/ip_lookup: the Direct Lookup Index of           *)
(* src/hashmap.rs, the dataset reader of src/utils.rs, the hot-reload loop *)
(* of src/main.rs and the request handlers of src/routes.rs.               *)
(*                                                                         *)
(* Addresses are ADDR_BITS wide instead of 32, so that a table of          *)
(* 2^index_bits slots can be enumerated; every shift, mask and wrap of the *)
(* source is kept, taken modulo 2^ADDR_BITS instead of 2^32.               *)
(***************************************************************************)
EXTENDS Integers, Sequences, FiniteSets, TLC

\* ------------------------------------------------------------------ bounds
\* Width of an address (u32 in the source, scaled down).
ADDR_BITS == 2
\* index_bits of the index built at startup (20 of 32 in the source, scaled).
STARTUP_INDEX_BITS == 1
\* index_bits of the index built by a reload (30 of 32 in the source, scaled).
RELOAD_INDEX_BITS == 2
\* Longest list of pending entries of the index under test.
MaxEntries == 2
\* Largest modification time the dataset file takes.
MaxMtime == 2

\* ------------------------------------------------------- program constants
\* Largest value of the prefix type, u8.
U8_MAX == 255

\* ------------------------------------------------------ machine arithmetic
Pow2(n) == 2 ^ n

\* Number of values of the address type.
AddrModulus == Pow2(ADDR_BITS)

Addrs == 0 .. (AddrModulus - 1)

\* A panic, and a returned value.
Panic == [ok |-> FALSE, val |-> 0]

Ok(v) == [ok |-> TRUE, val |-> v]

\* x >> n for n below the width.
Shr(x, n) == x \div Pow2(n)

\* x.wrapping_shl(n): the shift amount is taken modulo the width, the result
\* is truncated to the width.
WrappingShl(x, n) == (x * Pow2(n % ADDR_BITS)) % AddrModulus

\* x << n: with overflow checks a shift amount of the width or more panics,
\* without them it wraps as wrapping_shl does.
CheckedShl(x, n, checks) ==
    IF n >= ADDR_BITS
    THEN IF checks THEN Panic ELSE Ok(WrappingShl(x, n))
    ELSE Ok((x * Pow2(n)) % AddrModulus)

\* !x
BitNot(x) == AddrModulus - 1 - x

\* x & y over w bits.
RECURSIVE BitAndW(_, _, _)
BitAndW(x, y, w) ==
    IF w = 0 THEN 0
    ELSE 2 * BitAndW(x \div 2, y \div 2, w - 1) + ((x % 2) * (y % 2))

BitAnd(x, y) == BitAndW(x, y, ADDR_BITS)

\* x.wrapping_add(y)
WrappingAdd(x, y) == (x + y) % AddrModulus

\* ------------------------------------------------------------------- text
\* A text is what the code splits, trims and parses: pad says it carries
\* leading or trailing whitespace, quote that it is wrapped in '"', and
\* parts is the list of its pieces between '/' characters.  A piece is a
\* dotted quad denoting an address, a decimal integer, or anything else.
Quad(v) == [kind |-> "quad", val |-> v]

Dec(n) == [kind |-> "int", val |-> n]

\* Any other piece; n tells two such pieces apart.
Word(n) == [kind |-> "word", val |-> n]

Text(parts) == [pad |-> FALSE, quote |-> FALSE, parts |-> parts]

\* str::trim
trim(t) == [t EXCEPT !.pad = FALSE]

\* str::trim_matches('"')
trim_matches_quote(t) == [t EXCEPT !.quote = FALSE]

\* "a.b.c.d/p"
Cidr(v, p) == Text(<<Quad(v), Dec(p)>>)

\* str::parse::<Ipv4Addr>: whitespace and quotes are not accepted.
ParsesAsIpv4(t, piece) == ~t.pad /\ ~t.quote /\ piece.kind = "quad"

\* str::parse::<u8>
ParsesAsU8(t, piece) ==
    ~t.pad /\ ~t.quote /\ piece.kind = "int" /\ piece.val \in 0 .. U8_MAX

\* parse_cidr: split on '/', unwrap the address of piece 0 and the u8 of
\* piece 1; pieces after the second are ignored.  A failed unwrap and a
\* missing piece 1 panic.
parse_cidr(cidr) ==
    LET parts == cidr.parts
    IN  IF ~ParsesAsIpv4(cidr, parts[1]) THEN Panic
        ELSE IF Len(parts) < 2 THEN Panic
        ELSE IF ~ParsesAsU8(cidr, parts[2]) THEN Panic
        ELSE Ok(<<parts[1].val, parts[2].val>>)

\* ------------------------------------------------------------ range model
\* IPRange: the record a search returns.
IPRange(cidr_range, isp, asn) ==
    [cidr_range |-> cidr_range, isp |-> isp, asn |-> asn]

\* IPRangeEntry::new: panics when parse_cidr does.
IPRangeEntry_new(cidr_range, isp, asn) ==
    LET parsed == parse_cidr(cidr_range)
    IN  IF ~parsed.ok THEN Panic
        ELSE Ok([network  |-> parsed.val[1],
                 prefix   |-> parsed.val[2],
                 ip_range |-> IPRange(cidr_range, isp, asn)])

\* IPRangeEntry::mask.  For a prefix above the width the subtraction wraps
\* and wrapping_shl reduces the shift amount modulo the width: the wrap
\* being by a multiple of the width, the amount is the difference modulo
\* the width.
mask(prefix) ==
    IF prefix = 0 THEN 0
    ELSE BitNot(WrappingShl(1, ADDR_BITS - prefix) - 1)

\* Whether IPRangeEntry::mask panics: with overflow checks, on the
\* subtraction of a prefix above the width.
MaskOverflows(prefix, checks) == checks /\ prefix > ADDR_BITS

\* ----------------------------------------------------- Direct Lookup Index
NoRange == IPRange(Text(<<>>), Text(<<>>), Text(<<>>))

\* Option::None and Option::Some of a table slot, (u8, Arc<IPRange>).
None == [some |-> FALSE, prefix |-> 0, ip_range |-> NoRange]

Some(prefix, ip_range) == [some |-> TRUE, prefix |-> prefix, ip_range |-> ip_range]

\* IPRangeDirectLookup::new
IPRangeDirectLookup_new(index_bits) ==
    [table      |-> [i \in 0 .. (Pow2(index_bits) - 1) |-> None],
     entries    |-> <<>>,
     index_bits |-> index_bits,
     table_size |-> Pow2(index_bits)]

\* The number of addresses of a range, as build_table computes it.  For
\* a prefix above the width the subtraction, of the prefix type, overflows:
\* with overflow checks it panics, without them it wraps and the shift
\* reduces the amount modulo the width.
EntryCount(prefix, checks) ==
    IF prefix = ADDR_BITS THEN Ok(1)
    ELSE IF prefix > ADDR_BITS
    THEN IF checks THEN Panic ELSE Ok(WrappingShl(1, ADDR_BITS - prefix))
    ELSE CheckedShl(1, ADDR_BITS - prefix, checks)

\* The test of build_table that lets an entry replace a slot's occupant.
WinsOrTies(entry_prefix, existing_prefix) == entry_prefix >= existing_prefix

Wins(entry_prefix, existing_prefix) == entry_prefix > existing_prefix

\* What build_table leaves in a slot it offers an entry to.
Offer(slot, entry) ==
    IF slot.some
    THEN IF Wins(entry.prefix, slot.prefix)
         THEN Some(entry.prefix, entry.ip_range)
         ELSE slot
    ELSE Some(entry.prefix, entry.ip_range)

\* The slot interval as it would be if the addresses were not shifted down
\* to slot indexes.
SlotIntervalUnshifted(index_bits, entry, count) ==
    LET start_ip == BitAnd(entry.network, mask(entry.prefix))
        end_ip   == WrappingAdd(start_ip, count - 1)
    IN  <<start_ip, end_ip>>

\* The slot interval build_table computes for an entry: [start_index, end_index].
SlotInterval(index_bits, entry, count) ==
    LET start_ip == BitAnd(entry.network, mask(entry.prefix))
        shift    == ADDR_BITS - index_bits
        end_ip   == WrappingAdd(start_ip, count - 1)
    IN  <<Shr(start_ip, shift), Shr(end_ip, shift)>>

\* One pass of build_table's loop over the entries: the table after the
\* entry was offered to every slot of its interval.  Computing the mask or
\* count may panic, and so does indexing the table out of bounds.
BuildEntry(index_bits, table, entry, checks) ==
    LET count == EntryCount(entry.prefix, checks)
    IN  IF MaskOverflows(entry.prefix, checks) \/ ~count.ok THEN Panic
        ELSE LET iv == SlotInterval(index_bits, entry, count.val)
                 hit(i) == iv[1] <= i /\ i <= iv[2]
             IN  IF \E i \in iv[1] .. iv[2] : i \notin DOMAIN table
                 THEN Panic
                 ELSE Ok([i \in DOMAIN table |->
                            IF hit(i) THEN Offer(table[i], entry) ELSE table[i]])

\* build_table's loop from entry k on.  A panic leaves the table as the
\* passes before it wrote it.
RECURSIVE BuildLoop(_, _, _, _, _)
BuildLoop(index_bits, entries, table, k, checks) ==
    IF k > Len(entries) THEN [panic |-> FALSE, table |-> table]
    ELSE LET r == BuildEntry(index_bits, table, entries[k], checks)
         IN  IF ~r.ok THEN [panic |-> TRUE, table |-> table]
             ELSE BuildLoop(index_bits, entries, r.val, k + 1, checks)

\* The entries build_table is left with.
EntriesDrained(entries) == <<>>

EntriesKept(entries) == entries

\* IPRangeDirectLookup::build_table: clear the table, then run the loop.
build_table(self, checks) ==
    LET cleared == [i \in DOMAIN self.table |-> None]
        r == BuildLoop(self.index_bits, self.entries, cleared, 1, checks)
    IN  [panic |-> r.panic,
         self  |-> [self EXCEPT !.table = r.table,
                                !.entries = EntriesKept(@)]]

\* insert_range as it would be if it also updated the table.
insert_range_eager(self, cidr_range, isp, asn) ==
    LET e == IPRangeEntry_new(cidr_range, isp, asn)
    IN  IF ~e.ok THEN Panic
        ELSE Ok(build_table([self EXCEPT !.entries = Append(@, e.val)],
                            FALSE).self)

\* IPRangeDirectLookup::insert_range: push the new entry; a panic of
\* IPRangeEntry::new unwinds before the push.
insert_range(self, cidr_range, isp, asn) ==
    LET e == IPRangeEntry_new(cidr_range, isp, asn)
    IN  IF ~e.ok THEN Panic
        ELSE Ok([self EXCEPT !.entries = Append(@, e.val)])

\* Option<Arc<IPRange>>
NotFound == [some |-> FALSE, ip_range |-> NoRange]

Found(ip_range) == [some |-> TRUE, ip_range |-> ip_range]

\* IPRangeDirectLookup::search
search(self, ip_addr) ==
    LET shift == ADDR_BITS - self.index_bits
        index == Shr(ip_addr, shift)
    IN  IF index \in DOMAIN self.table /\ self.table[index].some
        THEN Found(self.table[index].ip_range)
        ELSE NotFound


\* ------------------------------------------------ Longest-Prefix Bucket Index
\* IPRangeHashMap::new: no key has a bucket.
IPRangeHashMap_new == [key \in Addrs |-> <<>>]

\* IPRangeHashMap::insert_range: append (mask, record) to the bucket of
\* network & mask.
hashmap_insert_range(map, cidr_range, isp, asn) ==
    LET e == IPRangeEntry_new(cidr_range, isp, asn)
    IN  IF ~e.ok THEN Panic
        ELSE LET m   == mask(e.val.prefix)
                 key == BitAnd(e.val.network, m)
             IN  Ok([map EXCEPT ![key] =
                       Append(@, [mask |-> m, ip_range |-> e.val.ip_range])])

\* The first entry of a bucket whose mask applied to the address gives the
\* candidate key.
RECURSIVE FirstInBucket(_, _, _, _)
FirstInBucket(bucket, ip_addr, candidate_key, k) ==
    IF k > Len(bucket) THEN NotFound
    ELSE IF BitAnd(ip_addr, bucket[k].mask) = candidate_key
    THEN Found(bucket[k].ip_range)
    ELSE FirstInBucket(bucket, ip_addr, candidate_key, k + 1)

\* IPRangeHashMap::search from prefix length len down to 0: the first hit.
RECURSIVE SearchDown(_, _, _)
SearchDown(map, ip_addr, len) ==
    IF len < 0 THEN NotFound
    ELSE LET candidate_key == BitAnd(ip_addr, mask(len))
             hit == FirstInBucket(map[candidate_key], ip_addr, candidate_key, 1)
         IN  IF hit.some THEN hit ELSE SearchDown(map, ip_addr, len - 1)

\* IPRangeHashMap::search
hashmap_search(map, ip_addr) == SearchDown(map, ip_addr, ADDR_BITS)

\* ---------------------------------------------------------- dataset reader
\* A line of the dataset file: its fields between ',' characters, or a
\* line whose read fails (io::Error from reader.lines()).
Line(fields) == [io_error |-> FALSE, fields |-> fields]

IoErrorLine == [io_error |-> TRUE, fields |-> <<>>]

\* The loop of read_ip_ranges_from_file from line k on: a failed read
\* returns Err, a line of fewer than four fields is skipped, the others are
\* trimmed and inserted; a panic of insert_range unwinds through the loop.
RECURSIVE ReadLines(_, _, _)
ReadLines(lines, k, hashmap) ==
    IF k > Len(lines) THEN [status |-> "ok", hashmap |-> hashmap]
    ELSE IF lines[k].io_error THEN [status |-> "err", hashmap |-> hashmap]
    ELSE LET parts == lines[k].fields
         IN  IF Len(parts) >= 4
             THEN LET cidr_range == trim(parts[1])
                      isp        == trim_matches_quote(trim(parts[2]))
                      asn        == trim(parts[3])
                      r          == insert_range(hashmap, cidr_range, isp, asn)
                  IN  IF ~r.ok THEN [status |-> "panic", hashmap |-> hashmap]
                      ELSE ReadLines(lines, k + 1, r.val)
             ELSE ReadLines(lines, k + 1, hashmap)

\* read_ip_ranges_from_file: File::open fails on a missing or unreadable
\* file, then the loop over the lines.
read_ip_ranges_from_file(f, hashmap) ==
    IF f.status # "ok" THEN [status |-> "err", hashmap |-> hashmap]
    ELSE ReadLines(f.content, 1, hashmap)

\* fs::metadata(path) and metadata.modified()
modified(f) == IF f.status = "missing" THEN Panic ELSE Ok(f.mtime)

\* --------------------------------------------------------------- the lock
\* tokio::sync::RwLock: the handlers that hold a read guard, whether the
\* reload loop holds the write guard, and whether it is queued for it.
Unlocked == [readers |-> {}, writer |-> FALSE, queued |-> FALSE]

\* A read guard taken with no regard to the writer.
CanReadUnguarded(lock) == TRUE

\* read().await returns: no writer holds the lock or is queued before us.
CanRead(lock) == ~lock.writer /\ ~lock.queued

\* write().await returns: nobody holds the lock.
CanWrite(lock) == lock.readers = {} /\ ~lock.writer

\* The loop goes on to the swap whatever read_ip_ranges_from_file returned.
SwapsAfterAnyReturn(status) == status \in {"ok", "err"}

\* monitor_file_changes goes on to the swap when read_ip_ranges_from_file
\* returned Ok; on Err it logs and continues with the next check.
SwapsAfter(status) == status = "ok"

\* The fields of IPRangeDirectLookup, in the order a move writes them.
Fields == <<"table", "entries", "index_bits", "table_size">>

\* ------------------------------------------------------------------ state
VARIABLES
    overflow_checks,  \* whether the build panics on arithmetic overflow
    lookup,           \* the IPRangeDirectLookup under test
    last,             \* the last call made on lookup and how it returned
    file,             \* the dataset file: status, content, modification time
    published,        \* AppState.hashmap: the index behind the RwLock
    field_gen,        \* for each field of published, the generation that wrote it
    rw,               \* the RwLock
    mon,              \* the task running monitor_file_changes
    rd,               \* the request handlers
    hashmap,          \* the Bucket Index under test
    inserted          \* the entries inserted into the Bucket Index, in order

index_vars == <<lookup, last>>

serve_vars == <<file, published, field_gen, rw, mon, rd>>

bucket_vars == <<hashmap, inserted>>

vars ==
    <<overflow_checks, lookup, last, file, published, field_gen, rw, mon, rd,
      hashmap, inserted>>

\* ------------------------------------------------------------------ inputs
ISP_A == Text(<<Word(1)>>)

ISP_B == Text(<<Word(2)>>)

ASN_1 == Text(<<Word(3)>>)

\* A fourth field; the reader ignores what follows the third.
Extra == Text(<<Word(4)>>)

\* Well-formed CIDR texts, of every address and every prefix length.
ValidCidrs == {Cidr(v, p) : v \in Addrs, p \in 0 .. ADDR_BITS}

\* CIDR texts that parse, of a prefix length above the width of an
\* address: the next one, and the largest the prefix type holds.
OverlongCidrs == {Cidr(0, ADDR_BITS + 1), Cidr(AddrModulus - 1, U8_MAX)}

\* Malformed CIDR texts: no '/', no dotted quad, no integer prefix, a
\* prefix that is no u8, and surrounding whitespace.
MalformedCidrs ==
    {Text(<<Word(0)>>),
     Text(<<Quad(0)>>),
     Text(<<Word(0), Dec(1)>>),
     Text(<<Quad(0), Word(0)>>),
     Text(<<Quad(0), Dec(U8_MAX + 1)>>),
     [Cidr(0, 1) EXCEPT !.pad = TRUE]}

Padded(t) == [t EXCEPT !.pad = TRUE]

Quoted(t) == [t EXCEPT !.quote = TRUE]

\* The upper half of the address space, as a /1.
UpperHalf == Cidr(Pow2(ADDR_BITS - 1), 1)

\* Dataset files.  DS_A: one range owned by ISP_A.  DS_B: the same range
\* owned by ISP_B, padded and quoted, after a line of too few fields.
\* DS_MALFORMED: a malformed CIDR between two valid lines.  DS_IO_ERROR: a
\* valid line, then a line whose read fails.
DS_A == <<Line(<<Cidr(0, 1), ISP_A, ASN_1, Extra>>)>>

DS_B ==
    <<Line(<<Cidr(0, 1), ISP_A>>),
      Line(<<Padded(Cidr(0, 1)), Padded(Quoted(ISP_B)), Padded(ASN_1), Extra>>)>>

DS_MALFORMED ==
    <<Line(<<Cidr(0, 1), ISP_A, ASN_1, Extra>>),
      Line(<<Text(<<Word(0)>>), ISP_A, ASN_1, Extra>>),
      Line(<<UpperHalf, ISP_B, ASN_1, Extra>>)>>

DS_IO_ERROR == <<Line(<<Cidr(0, 1), ISP_A, ASN_1, Extra>>), IoErrorLine>>

Datasets == {DS_A, DS_B, DS_MALFORMED, DS_IO_ERROR}

Readers == {"r1", "r2"}

\* ----------------------------------------- the Direct Lookup Index in use
Call(op, ret, cidr) == [op |-> op, ret |-> ret, cidr |-> cidr]

NoText == Text(<<>>)

\* Option<SystemTime>
NoTime == [some |-> FALSE, val |-> 0]

SomeTime(t) == [some |-> TRUE, val |-> t]

\* The task of monitor_file_changes: where it is, its locals
\* last_mod_time, modified_time and new_hashmap, what its last
\* read_ip_ranges_from_file returned and the content it read (none when
\* the file could not be opened), and the field of the swap it writes next.
Monitor(pc, last_mod_time, modified_time, new_hashmap, build, source, cursor) ==
    [pc |-> pc, last_mod_time |-> last_mod_time, modified_time |-> modified_time,
     new_hashmap |-> new_hashmap, build |-> build, source |-> source,
     cursor |-> cursor]

NoHashmap == IPRangeDirectLookup_new(0)

\* A handler: where it is, the address it looks up, what search returned,
\* and the generations of the fields search read.
Handler(pc, ip, found, gen_bits, gen_table) ==
    [pc |-> pc, ip |-> ip, found |-> found, gen_bits |-> gen_bits,
     gen_table |-> gen_table]

IdleHandler == Handler("idle", 0, NotFound, 0, 0)

\* The serving state while only the index under test is exercised.
ServeIdle ==
    /\ file = [status |-> "ok", content |-> <<>>, mtime |-> 0]
    /\ published = NoHashmap
    /\ field_gen = [f \in {Fields[i] : i \in 1 .. Len(Fields)} |-> 0]
    /\ rw = Unlocked
    /\ mon = Monitor("start", NoTime, 0, NoHashmap, "none", <<>>, 1)
    /\ rd = [r \in Readers |-> IdleHandler]

\* The Bucket Index while it is not exercised.
BucketIdle ==
    /\ hashmap = IPRangeHashMap_new
    /\ inserted = <<>>

IndexInit ==
    /\ overflow_checks \in BOOLEAN
    /\ \E index_bits \in 1 .. ADDR_BITS :
         lookup = IPRangeDirectLookup_new(index_bits)
    /\ last = Call("new", "unit", NoText)
    /\ ServeIdle
    /\ BucketIdle

\* A call of insert_range.
index_insert_range ==
    /\ last.ret # "panic"
    /\ Len(lookup.entries) < MaxEntries
    /\ \E cidr \in ValidCidrs \cup OverlongCidrs \cup MalformedCidrs :
         LET r == insert_range(lookup, cidr, ISP_A, ASN_1)
         IN  IF r.ok
             THEN /\ lookup' = r.val
                  /\ last' = Call("insert_range", "unit", cidr)
             ELSE /\ lookup' = lookup
                  /\ last' = Call("insert_range", "panic", cidr)
    /\ UNCHANGED <<overflow_checks, serve_vars, bucket_vars>>

\* A call of build_table.
index_build_table ==
    /\ last.ret # "panic"
    /\ LET r == build_table(lookup, overflow_checks)
       IN  /\ lookup' = r.self
           /\ last' = Call("build_table", IF r.panic THEN "panic" ELSE "unit",
                           NoText)
    /\ UNCHANGED <<overflow_checks, serve_vars, bucket_vars>>

IndexNext == index_insert_range \/ index_build_table

SpecIndex == IndexInit /\ [][IndexNext]_vars

\* ------------------------------------------------- serving and hot reload
\* main: the index built at startup from the dataset file; expect() ends
\* the process unless read_ip_ranges_from_file returned Ok.
Startup(f) == read_ip_ranges_from_file(f, IPRangeDirectLookup_new(STARTUP_INDEX_BITS))

\* The state as main starts to serve: the startup index is behind the lock,
\* the monitor task is spawned, no request is in flight.
Init ==
    /\ overflow_checks = FALSE
    /\ lookup = NoHashmap
    /\ last = Call("new", "unit", NoText)
    /\ \E content \in Datasets :
         /\ file = [status |-> "ok", content |-> content, mtime |-> 0]
         /\ Startup(file).status = "ok"
         /\ published = Startup(file).hashmap
    /\ field_gen = [f \in {Fields[i] : i \in 1 .. Len(Fields)} |-> 0]
    /\ rw = Unlocked
    /\ mon = Monitor("start", NoTime, 0, NoHashmap, "none", <<>>, 1)
    /\ rd = [r \in Readers |-> IdleHandler]
    /\ BucketIdle

\* The dataset file is rewritten: new content, later modification time.
env_write_file ==
    /\ file.status = "ok"
    /\ file.mtime < MaxMtime
    /\ \E content \in Datasets :
         file' = [file EXCEPT !.content = content, !.mtime = @ + 1]
    /\ UNCHANGED <<overflow_checks, index_vars, bucket_vars, published, field_gen, rw, mon, rd>>

\* The dataset file is replaced by an older copy (a backup restored, a
\* copy that preserves times): new content, earlier modification time.
env_restore_file ==
    /\ file.status = "ok"
    /\ file.mtime > 0
    /\ \E content \in Datasets :
         file' = [file EXCEPT !.content = content, !.mtime = @ - 1]
    /\ UNCHANGED <<overflow_checks, index_vars, bucket_vars, published, field_gen, rw, mon, rd>>

\* The dataset file is removed, made unreadable, or restored.
env_set_status ==
    /\ \E status \in {"ok", "missing", "unreadable"} \ {file.status} :
         file' = [file EXCEPT !.status = status]
    /\ UNCHANGED <<overflow_checks, index_vars, bucket_vars, published, field_gen, rw, mon, rd>>

\* monitor_file_changes before its loop: last_mod_time is the file's
\* modification time, or None when it cannot be read.
monitor_start ==
    /\ mon.pc = "start"
    /\ mon' = [mon EXCEPT !.pc = "sleep",
                          !.last_mod_time =
                              IF modified(file).ok THEN SomeTime(modified(file).val)
                              ELSE NoTime]
    /\ UNCHANGED <<overflow_checks, index_vars, bucket_vars, file, published, field_gen, rw, rd>>

\* The periodic check as it would be if the loop took the write guard
\* before the rebuild and held it across the build.
monitor_check_locked ==
    /\ mon.pc = "sleep"
    /\ LET m == modified(file)
           rebuilds == m.ok /\ mon.last_mod_time.some /\ m.val > mon.last_mod_time.val
       IN  /\ rebuilds => CanWrite(rw)
           /\ rw' = IF rebuilds THEN [rw EXCEPT !.writer = TRUE] ELSE rw
           /\ mon' =
                IF ~m.ok THEN mon
                ELSE IF mon.last_mod_time.some
                THEN IF m.val > mon.last_mod_time.val
                     THEN [mon EXCEPT !.pc = "rebuild", !.modified_time = m.val]
                     ELSE mon
                ELSE [mon EXCEPT !.last_mod_time = SomeTime(m.val)]
    /\ UNCHANGED <<overflow_checks, index_vars, bucket_vars, file, published, field_gen, rd>>

\* One periodic check: after the sleep, read the modification time; an
\* error continues with the next sleep; a time later than last_mod_time
\* starts a rebuild; with no last_mod_time the time read is recorded.
monitor_check ==
    /\ mon.pc = "sleep"
    /\ LET m == modified(file)
       IN  mon' =
             IF ~m.ok THEN mon
             ELSE IF mon.last_mod_time.some
             THEN IF m.val > mon.last_mod_time.val
                  THEN [mon EXCEPT !.pc = "rebuild", !.modified_time = m.val]
                  ELSE mon
             ELSE [mon EXCEPT !.last_mod_time = SomeTime(m.val)]
    /\ UNCHANGED <<overflow_checks, index_vars, bucket_vars, file, published, field_gen, rw, rd>>

\* The rebuild as it would be if the loop recorded the time read before it
\* knew that the rebuild succeeded.
monitor_rebuild_advancing ==
    /\ mon.pc = "rebuild"
    /\ LET r == read_ip_ranges_from_file(file, IPRangeDirectLookup_new(RELOAD_INDEX_BITS))
           source == IF file.status = "ok" THEN file.content ELSE <<>>
       IN  mon' =
             IF r.status = "panic"
             THEN [mon EXCEPT !.pc = "panicked", !.build = "panic",
                              !.source = source]
             ELSE IF SwapsAfter(r.status)
             THEN [mon EXCEPT !.pc = "write", !.build = r.status,
                              !.source = source, !.new_hashmap = r.hashmap]
             ELSE [mon EXCEPT !.pc = "sleep", !.build = r.status,
                              !.source = source, !.modified_time = 0,
                              !.last_mod_time = SomeTime(mon.modified_time)]
    /\ UNCHANGED <<overflow_checks, index_vars, bucket_vars, file, published, field_gen, rw, rd>>

\* The rebuild: a new index filled by read_ip_ranges_from_file.  Ok goes on
\* to the swap, Err continues with the next sleep, a panic ends the task.
monitor_rebuild ==
    /\ mon.pc = "rebuild"
    /\ LET r == read_ip_ranges_from_file(file, IPRangeDirectLookup_new(RELOAD_INDEX_BITS))
           source == IF file.status = "ok" THEN file.content ELSE <<>>
       IN  mon' =
             IF r.status = "panic"
             THEN [mon EXCEPT !.pc = "panicked", !.build = "panic",
                              !.source = source]
             ELSE IF SwapsAfter(r.status)
             THEN [mon EXCEPT !.pc = "write", !.build = r.status,
                              !.source = source, !.new_hashmap = r.hashmap]
             ELSE [mon EXCEPT !.pc = "sleep", !.build = r.status,
                              !.source = source, !.modified_time = 0]
    /\ UNCHANGED <<overflow_checks, index_vars, bucket_vars, file, published, field_gen, rw, rd>>

\* state.hashmap.write(): the task queues for the write guard.
monitor_write ==
    /\ mon.pc = "write"
    /\ rw' = [rw EXCEPT !.queued = TRUE]
    /\ mon' = [mon EXCEPT !.pc = "queued"]
    /\ UNCHANGED <<overflow_checks, index_vars, bucket_vars, file, published, field_gen, rd>>

\* .await returns the write guard.
monitor_write_guard ==
    /\ mon.pc = "queued"
    /\ CanWrite(rw)
    /\ rw' = [rw EXCEPT !.queued = FALSE, !.writer = TRUE]
    /\ mon' = [mon EXCEPT !.pc = "swap", !.cursor = 1]
    /\ UNCHANGED <<overflow_checks, index_vars, bucket_vars, file, published, field_gen, rd>>

\* *hashmap_guard = new_hashmap: the move writes the next field.
monitor_swap ==
    /\ mon.pc = "swap"
    /\ LET f == Fields[mon.cursor]
       IN  /\ published' = [published EXCEPT ![f] = mon.new_hashmap[f]]
           /\ field_gen' = [field_gen EXCEPT ![f] = mon.modified_time]
    /\ mon' = IF mon.cursor = Len(Fields)
              THEN [mon EXCEPT !.pc = "unlock"]
              ELSE [mon EXCEPT !.cursor = @ + 1]
    /\ UNCHANGED <<overflow_checks, index_vars, bucket_vars, file, rw, rd>>

\* The write guard is dropped and last_mod_time becomes modified_time.
monitor_unlock ==
    /\ mon.pc = "unlock"
    /\ rw' = [rw EXCEPT !.writer = FALSE]
    /\ mon' = [mon EXCEPT !.pc = "sleep",
                          !.last_mod_time = SomeTime(mon.modified_time),
                          !.modified_time = 0, !.new_hashmap = NoHashmap,
                          !.cursor = 1]
    /\ UNCHANGED <<overflow_checks, index_vars, bucket_vars, file, published, field_gen, rd>>

\* handler and bulk_handler, for one address: state.hashmap.read().await
\* returns the read guard.
handler_read(r) ==
    /\ rd[r].pc = "idle"
    /\ CanRead(rw)
    /\ rw' = [rw EXCEPT !.readers = @ \cup {r}]
    /\ rd' = [rd EXCEPT ![r] = [@ EXCEPT !.pc = "locked"]]
    /\ UNCHANGED <<overflow_checks, index_vars, bucket_vars, file, published, field_gen, mon>>

\* hashmap.search(u32::from(ip)) under the read guard.
handler_search(r) ==
    /\ rd[r].pc = "locked"
    /\ \E ip \in Addrs :
         rd' = [rd EXCEPT ![r] = Handler("respond", ip, search(published, ip),
                                         field_gen["index_bits"], field_gen["table"])]
    /\ UNCHANGED <<overflow_checks, index_vars, bucket_vars, file, published, field_gen, rw, mon>>

\* The response is made and the read guard dropped.
handler_respond(r) ==
    /\ rd[r].pc = "respond"
    /\ rw' = [rw EXCEPT !.readers = @ \ {r}]
    /\ rd' = [rd EXCEPT ![r] = IdleHandler]
    /\ UNCHANGED <<overflow_checks, index_vars, bucket_vars, file, published, field_gen, mon>>

Next ==
    \/ env_write_file
    \/ env_restore_file
    \/ env_set_status
    \/ monitor_start
    \/ monitor_check
    \/ monitor_rebuild
    \/ monitor_write
    \/ monitor_write_guard
    \/ monitor_swap
    \/ monitor_unlock
    \/ \E r \in Readers : handler_read(r)
    \/ \E r \in Readers : handler_search(r)
    \/ \E r \in Readers : handler_respond(r)

Spec == Init /\ [][Next]_vars


\* ----------------------------------------------- the Bucket Index in use
BucketInit ==
    /\ overflow_checks = FALSE
    /\ lookup = NoHashmap
    /\ last = Call("new", "unit", NoText)
    /\ ServeIdle
    /\ BucketIdle

\* A call of insert_range on the Bucket Index.
bucket_insert_range ==
    /\ Len(inserted) < MaxEntries
    /\ \E cidr \in ValidCidrs :
         LET r == hashmap_insert_range(hashmap, cidr, ISP_A, ASN_1)
         IN  /\ r.ok
             /\ hashmap' = r.val
             /\ inserted' = Append(inserted, IPRangeEntry_new(cidr, ISP_A, ASN_1).val)
    /\ UNCHANGED <<overflow_checks, index_vars, serve_vars>>

BucketNext == bucket_insert_range

SpecBucket == BucketInit /\ [][BucketNext]_vars

\* ============================================================== properties
\* Whether the CIDR range of an entry contains an address: they agree on
\* the leading prefix bits.
Contains(entry, ip) ==
    ip \div Pow2(ADDR_BITS - entry.prefix)
      = entry.network \div Pow2(ADDR_BITS - entry.prefix)

\* The positions of the pending entries whose range contains ip.
Covering(entries, ip) == {k \in 1 .. Len(entries) : Contains(entries[k], ip)}

\* found is the answer of a longest-prefix match of ip over entries.
IsLongestMatch(entries, ip, found) ==
    IF Covering(entries, ip) = {}
    THEN found = NotFound
    ELSE /\ found.some
         /\ \E k \in Covering(entries, ip) :
              /\ \A j \in Covering(entries, ip) : entries[j].prefix <= entries[k].prefix
              /\ found.ip_range = entries[k].ip_range

\* The table of a build of the first k pending entries.
TableAfter(k) ==
    BuildLoop(lookup.index_bits, SubSeq(lookup.entries, 1, k),
              [i \in DOMAIN lookup.table |-> None], 1, overflow_checks).table


\* The fields of published were all written by one generation.
OneGeneration == \A f, g \in DOMAIN field_gen : field_gen[f] = field_gen[g]

\* C1: whatever the interleaving of handlers and reload loop, a search
\* reads one generation: while a handler holds its read guard no field of
\* the published index is of another generation than the others, the
\* fields its search read are of the same generation, and until the guard
\* is dropped the published index is the one it searched.
C1_HotSwapAtomic ==
    \A r \in Readers :
      /\ r \in rw.readers => OneGeneration
      /\ rd[r].pc = "respond"
         => /\ rd[r].gen_bits = rd[r].gen_table
            /\ rd[r].gen_table = field_gen["table"]
            /\ rd[r].found = search(published, rd[r].ip)

\* A handler has searched a generation that a swap published, while the
\* reload loop, with the next generation built, waits for the write guard.
C1_Witness ==
    \E r \in Readers :
      /\ rd[r].pc = "respond"
      /\ rd[r].gen_table >= 1
      /\ mon.pc = "queued"
      /\ mon.new_hashmap.entries # published.entries

\* C2: once a swap has published a rebuilt generation, a search for an
\* address inside a range of the new dataset returns that range's record.
C2_ReloadedGenerationQueryable ==
    \A r \in Readers :
      (/\ rd[r].pc = "respond"
       /\ rd[r].gen_table >= 1
       /\ Covering(published.entries, rd[r].ip) # {})
      => IsLongestMatch(published.entries, rd[r].ip, rd[r].found)

\* C3: a rebuild that fails (the file cannot be opened, a line cannot be
\* read, a line cannot be parsed) leaves the published index, the result of
\* every search and the lock as they were; the published index changes
\* only in the swap after a rebuild that succeeded.
C3_FailedRebuildKeepsGeneration ==
    [][/\ (mon.pc = "rebuild" /\ mon'.pc # "rebuild" /\ mon'.build # "ok")
          => /\ published' = published
             /\ \A ip \in Addrs : search(published', ip) = search(published, ip)
             /\ rw' = rw /\ CanRead(rw')
       /\ published' # published => (mon.pc = "swap" /\ mon.build = "ok")]_vars

\* A rebuild has failed on a line that could not be read, after a swap had
\* published a generation, and a handler has searched since.
C3_Witness ==
    /\ mon.pc = "sleep"
    /\ mon.build = "err"
    /\ mon.source = DS_IO_ERROR
    /\ field_gen["table"] >= 1
    /\ \E r \in Readers : rd[r].pc = "respond"

\* The entries of the lines of a dataset that have four fields and a
\* well-formed CIDR.
RECURSIVE ValidEntries(_, _)
ValidEntries(lines, k) ==
    IF k > Len(lines) THEN <<>>
    ELSE LET parts == lines[k].fields
             e == IPRangeEntry_new(trim(parts[1]), trim_matches_quote(trim(parts[2])),
                                   trim(parts[3]))
         IN  IF ~lines[k].io_error /\ Len(parts) >= 4 /\ e.ok
             THEN <<e.val>> \o ValidEntries(lines, k + 1)
             ELSE ValidEntries(lines, k + 1)

\* C6: a rebuild from a dataset with a malformed CIDR line does not abort:
\* it succeeds, with every valid line before and after the malformed one
\* inserted.
C6_MalformedLineSkipped ==
    (mon.build # "none" /\ mon.source = DS_MALFORMED)
    => /\ mon.build = "ok"
       /\ mon.pc = "write" => mon.new_hashmap.entries = ValidEntries(mon.source, 1)

\* C4: after build_table over entries whose prefix lengths are all at most
\* index_bits, the build has returned and search(ip) is, for every address,
\* the record of the longest-prefix entry containing ip, or nothing when no
\* entry contains it.
C4_ExactLongestPrefixMatch ==
    (/\ last.op = "build_table"
     /\ \A k \in 1 .. Len(lookup.entries) :
          lookup.entries[k].prefix <= lookup.index_bits)
    => /\ last.ret = "unit"
       /\ \A ip \in Addrs : IsLongestMatch(lookup.entries, ip, search(lookup, ip))

\* C5: insert_range of a malformed CIDR text returns a MalformedCidr error
\* value, not a panic.
C5_MalformedReturnsError ==
    (last.op = "insert_range" /\ last.cidr \in MalformedCidrs)
    => last.ret = "MalformedCidr"

\* C7: a second build_table with no insert_range in between leaves the
\* table, slot for slot, as the first one left it (and ends as it did).
C7_BuildIdempotent ==
    last.op = "build_table"
    => LET again == build_table(lookup, overflow_checks)
       IN  /\ again.self.table = lookup.table
           /\ again.panic = (last.ret = "panic")

C7_Witness ==
    /\ last.op = "build_table"
    /\ last.ret = "unit"
    /\ Len(lookup.entries) = MaxEntries
    /\ \E i \in DOMAIN lookup.table : lookup.table[i].some
    /\ \E i \in DOMAIN lookup.table : ~lookup.table[i].some

\* C8: a call of insert_range at most appends one pending entry; it leaves
\* the table, and so the result of search for every address, unchanged.
C8_InsertLeavesTable ==
    [][last'.op = "insert_range"
       => /\ lookup'.table = lookup.table
          /\ \A ip \in Addrs : search(lookup', ip) = search(lookup, ip)
          /\ SubSeq(lookup'.entries, 1, Len(lookup.entries)) = lookup.entries
          /\ Len(lookup'.entries) <= Len(lookup.entries) + 1]_vars

\* An insert_range has returned, after a build, and a build now would
\* change what search returns.
C8_Witness ==
    /\ last.op = "insert_range"
    /\ last.ret = "unit"
    /\ \E i \in DOMAIN lookup.table : lookup.table[i].some
    /\ \E ip \in Addrs :
         search(build_table(lookup, FALSE).self, ip) # search(lookup, ip)

\* C9: search on the Bucket Index returns, for every address, the record
\* of the longest-prefix inserted range containing it (for disjoint ranges:
\* of the one range containing it), and nothing when no range contains it.
C9_BucketLongestPrefixMatch ==
    \A ip \in Addrs : IsLongestMatch(inserted, ip, hashmap_search(hashmap, ip))

\* One pass of the build over entry e took a table from before to after by
\* the win rule: a slot that held an occupant keeps one, of a prefix length
\* no shorter, and changes only to e, whose prefix length is strictly
\* greater than the occupant's.
KeepsWinRule(before, after, e) ==
    \A i \in DOMAIN before :
      before[i].some
      => /\ after[i].some
         /\ after[i].prefix >= before[i].prefix
         /\ after[i] # before[i]
            => /\ e.prefix > before[i].prefix
               /\ after[i] = Some(e.prefix, e.ip_range)

\* Every pass of the build from entry k on, started on table, keeps the
\* win rule, and the build ends with the table final.
RECURSIVE WinRuleFrom(_, _, _)
WinRuleFrom(table, k, final) ==
    IF k > Len(lookup.entries) THEN table = final
    ELSE LET r == BuildEntry(lookup.index_bits, table, lookup.entries[k],
                             overflow_checks)
         IN  IF ~r.ok THEN table = final
             ELSE /\ KeepsWinRule(table, r.val, lookup.entries[k])
                  /\ WinRuleFrom(r.val, k + 1, final)

\* C10: during one build, a slot that holds an occupant keeps one, its
\* prefix length never decreases, and it changes only to an entry whose
\* prefix length is strictly greater than the occupant's.
C10_WinRule ==
    last.op = "build_table"
    => WinRuleFrom([i \in DOMAIN lookup.table |-> None], 1, lookup.table)

\* A build has offered a slot an entry of the occupant's prefix length and
\* of another record.
C10_Witness ==
    /\ last.op = "build_table"
    /\ last.ret = "unit"
    /\ \E k \in 1 .. Len(lookup.entries) :
         LET before == TableAfter(k - 1)
             e      == lookup.entries[k]
             iv     == SlotInterval(lookup.index_bits, e, Pow2(ADDR_BITS - e.prefix))
         IN  /\ e.prefix <= ADDR_BITS
             /\ \E i \in DOMAIN before :
                  /\ before[i].some /\ iv[1] <= i /\ i <= iv[2]
                  /\ e.prefix = before[i].prefix
                  /\ e.ip_range # before[i].ip_range

\* Whether the build offers slot i to pending entry k: i lies in the slot
\* interval computed for the entry.
Offered(k, i) ==
    LET e == lookup.entries[k]
        count == EntryCount(e.prefix, overflow_checks)
    IN  /\ count.ok
        /\ LET iv == SlotInterval(lookup.index_bits, e, count.val)
           IN  iv[1] <= i /\ i <= iv[2]

\* Entries j and k, j inserted before k, tie on slot i: they have the same
\* prefix length, both are offered the slot, no entry of a longer prefix is,
\* and no other entry of their prefix length is offered it before j or
\* after k.
Tie(j, k, i) ==
    LET p == lookup.entries[j].prefix
        entries == lookup.entries
    IN  /\ j < k
        /\ entries[k].prefix = p
        /\ Offered(j, i) /\ Offered(k, i)
        /\ \A m \in 1 .. Len(entries) :
             Offered(m, i)
             => /\ entries[m].prefix <= p
                /\ (entries[m].prefix = p => (j <= m /\ m <= k))

\* C11 as claimed: after build_table returned, a slot on which two entries
\* of equal prefix length tie holds the record of the one inserted last.
C11_TieLastWriteWins ==
    (last.op = "build_table" /\ last.ret = "unit")
    => \A i \in DOMAIN lookup.table :
         \A j, k \in 1 .. Len(lookup.entries) :
           Tie(j, k, i)
           => lookup.table[i]
                = Some(lookup.entries[k].prefix, lookup.entries[k].ip_range)

\* C11 as amended: after build_table returned, a slot on which two entries
\* of equal prefix length tie holds the record of the one inserted first
\* (the strict test never lets an equal prefix displace the occupant).
C11_TieFirstWriteWins ==
    (last.op = "build_table" /\ last.ret = "unit")
    => \A i \in DOMAIN lookup.table :
         \A j, k \in 1 .. Len(lookup.entries) :
           Tie(j, k, i)
           => lookup.table[i]
                = Some(lookup.entries[j].prefix, lookup.entries[j].ip_range)

\* A build has returned with two entries of equal prefix length and
\* different records tied on a slot.
C11_Witness ==
    /\ last.op = "build_table"
    /\ last.ret = "unit"
    /\ \E i \in DOMAIN lookup.table :
         \E j, k \in 1 .. Len(lookup.entries) :
           /\ Tie(j, k, i)
           /\ lookup.entries[j].ip_range # lookup.entries[k].ip_range

\* C12: the reload loop holds no lock while it builds (it neither holds nor
\* is queued for the write guard, so a handler's read() returns at once);
\* it holds the write guard only for the assignment that swaps the
\* generation in, and a handler's read() waits only while the loop is
\* queued for that assignment or makes it.
C12_BuildHoldsNoLock ==
    /\ mon.pc = "rebuild" => CanRead(rw)
    /\ rw.writer <=> mon.pc \in {"swap", "unlock"}
    /\ rw.queued <=> mon.pc = "queued"
    /\ ~CanRead(rw) => mon.pc \in {"queued", "swap", "unlock"}

\* The reload loop is building while one handler holds a read guard it was
\* given and another has yet to ask for one.
C12_Witness ==
    /\ mon.pc = "rebuild"
    /\ field_gen["table"] >= 1
    /\ \E r \in Readers : rd[r].pc = "locked" /\ r \in rw.readers
    /\ \E r \in Readers : rd[r].pc = "idle"

\* C13: at a periodic check that reads the file's modification time, with
\* a last-observed time recorded: if the two are equal the check changes
\* nothing (the published index and the last-observed time stay); if they
\* differ the check starts the build of a new generation for the time read.
C13_ReloadTrigger ==
    (mon.pc = "sleep" /\ modified(file).ok /\ mon.last_mod_time.some)
    => IF modified(file).val = mon.last_mod_time.val
       THEN ~ENABLED <<monitor_check>>_vars
       ELSE ENABLED (/\ monitor_check
                     /\ mon'.pc = "rebuild"
                     /\ mon'.modified_time = modified(file).val)

\* C14: the reload loop has no terminal state: whatever the outcome of a
\* check, its task has not ended, and a check or rebuild that is over
\* without a swap to make has left the loop at the sleep before the next
\* check.
C14_NoTerminalState ==
    /\ mon.pc \in {"start", "sleep", "rebuild", "write", "queued", "swap", "unlock"}
    /\ mon.build \in {"err", "panic"} => mon.pc \in {"sleep", "rebuild"}

\* The slot interval of a range of prefix length p in 0 .. ADDR_BITS, by
\* the arithmetic of the integers: from the slot of its first address to
\* the slot of its last, count = 2^(ADDR_BITS - p) addresses on.
ExactSlotInterval(index_bits, entry) ==
    LET first_address == BitAnd(entry.network, mask(entry.prefix))
        count         == Pow2(ADDR_BITS - entry.prefix)
        last_address  == first_address + count - 1
        shift         == ADDR_BITS - index_bits
    IN  <<Shr(first_address, shift), Shr(last_address, shift)>>

\* C15: a build over entries of prefix lengths 0 .. ADDR_BITS computes
\* every count without overflow (it returns), as 2^(ADDR_BITS - p), and
\* offers each entry exactly the slots from that of its first address to
\* that of its last.
C15_SlotIntervalExact ==
    (/\ last.op = "build_table"
     /\ \A k \in 1 .. Len(lookup.entries) : lookup.entries[k].prefix <= ADDR_BITS)
    => /\ last.ret = "unit"
       /\ \A k \in 1 .. Len(lookup.entries) :
            LET e  == lookup.entries[k]
                iv == ExactSlotInterval(lookup.index_bits, e)
            IN  /\ EntryCount(e.prefix, overflow_checks) = Ok(Pow2(ADDR_BITS - e.prefix))
                /\ \A i \in DOMAIN lookup.table :
                     Offered(k, i) <=> (iv[1] <= i /\ i <= iv[2])

\* C16: a CIDR text of a prefix length above the width of an address is
\* rejected when it is inserted: insert_range does not return as for a
\* valid text, no pending entry and no slot of the table has such a prefix
\* length, and so no build takes one for a prefix length within the width.
C16_OverlongPrefixRejected ==
    /\ (last.op = "insert_range" /\ last.cidr \in OverlongCidrs) => last.ret # "unit"
    /\ \A k \in 1 .. Len(lookup.entries) : lookup.entries[k].prefix <= ADDR_BITS
    /\ \A i \in DOMAIN lookup.table :
         lookup.table[i].some => lookup.table[i].prefix <= ADDR_BITS

\* C17: the last-observed time changes only when the loop has swapped a
\* rebuilt generation in (to the time that rebuild was started for), or
\* when none was recorded and the file's time is read; a rebuild that
\* returned an I/O error leaves it as it was, earlier than the time of the
\* change, so that the next check that reads the change rebuilds again.
\* (A check that cannot read the metadata changes nothing at all.)
C17_RetryAfterFailure ==
    [][/\ mon'.last_mod_time # mon.last_mod_time
          => \/ /\ mon.pc = "unlock" /\ mon.build = "ok"
                /\ mon'.last_mod_time = SomeTime(mon.modified_time)
             \/ /\ ~mon.last_mod_time.some /\ modified(file).ok
                /\ mon'.last_mod_time = SomeTime(modified(file).val)
       /\ (mon.pc = "rebuild" /\ mon'.pc # "rebuild" /\ mon'.build = "err")
          => /\ mon'.pc = "sleep"
             /\ mon'.last_mod_time = mon.last_mod_time
             /\ mon'.last_mod_time.val < mon.modified_time
       /\ (mon.pc = "sleep" /\ ~modified(file).ok) => mon' = mon]_vars

\* A rebuild returned an I/O error and, the file unchanged since, the next
\* check has started the rebuild again.
C17_Witness ==
    /\ mon.pc = "rebuild"
    /\ mon.build = "err"
    /\ mon.source = DS_IO_ERROR
    /\ file.content = DS_IO_ERROR
    /\ mon.modified_time = file.mtime

\* C18: every slot index the build writes for a pending entry of a prefix
\* length within the width, and the slot index search reads for any
\* address, is below table_size, the length of the table: no access is out
\* of bounds.
C18_SlotIndexInBounds ==
    /\ DOMAIN lookup.table = 0 .. (lookup.table_size - 1)
    /\ lookup.table_size = Pow2(lookup.index_bits)
    /\ \A k \in 1 .. Len(lookup.entries) :
         LET e     == lookup.entries[k]
             count == EntryCount(e.prefix, overflow_checks)
         IN  (e.prefix <= ADDR_BITS /\ count.ok)
             => LET iv == SlotInterval(lookup.index_bits, e, count.val)
                IN  \A i \in iv[1] .. iv[2] : 0 <= i /\ i < lookup.table_size
    /\ \A ip \in Addrs :
         LET index == Shr(ip, ADDR_BITS - lookup.index_bits)
         IN  0 <= index /\ index < lookup.table_size

\* A build has returned, on a table of fewer slots than there are
\* addresses, with the last slot written by an entry whose range ends at
\* the last address.
C18_Witness ==
    /\ last.op = "build_table"
    /\ last.ret = "unit"
    /\ lookup.index_bits < ADDR_BITS
    /\ lookup.table[lookup.table_size - 1].some
    /\ \E k \in 1 .. Len(lookup.entries) :
         /\ lookup.entries[k].prefix \in 1 .. ADDR_BITS
         /\ Offered(k, lookup.table_size - 1)
         /\ lookup.entries[k].network = AddrModulus - 1

====
